---- MODULE Spec2Model ----
(***************************************************************************)
(* A model of the GitHub trending scraper: scraper.py (the class           *)
(* GitHubTrendingScraper: fetch_html, parse_repositories, export_to_csv,   *)
(* run) and app.py (the Streamlit button handler).                         *)
(*                                                                         *)
(* A string is a sequence of symbols.  A symbol is one character, or a     *)
(* token that stands for a run of ordinary characters (letters, digits,    *)
(* punctuation other than comma, double quote and line breaks), such as    *)
(* "https://github.com".  The output file is the sequence of symbols on    *)
(* disk, NoFile when it does not exist.                                    *)
(***************************************************************************)
EXTENDS Integers, Sequences, FiniteSets, TLC

\* ------------------------------------------------------------ bounds
\* The longest document, in nodes.
MaxDocLen == 3
\* The largest max_repos a scraper is constructed with (1..MaxRepos).
MaxRepos == 2
\* The longest anchor content (symbols, tag boundaries included) that the
\* name extraction is checked on.
MaxTextLen == 4
\* The longest (name, link) pair, in symbols with the field boundary, that
\* the CSV round trip is checked on.
MaxPairLen == 4

\* ------------------------------------------------------------ sequences
Min(a, b) == IF a <= b THEN a ELSE b

Max(a, b) == IF a >= b THEN a ELSE b

\* s[:n] of Python for n >= 0.
Take(s, n) == SubSeq(s, 1, Min(Len(s), n))

\* s[n:] of Python for n >= 0.
Drop(s, n) == SubSeq(s, n + 1, Len(s))

IsPrefix(s, t) == Len(s) <= Len(t) /\ SubSeq(t, 1, Len(s)) = s

RECURSIVE Concat(_)
\* "".join(ss)
Concat(ss) == IF ss = <<>> THEN <<>> ELSE Head(ss) \o Concat(Tail(ss))

\* All sequences over S of length at most n.
SeqsUpTo(S, n) == UNION {[1..k -> S] : k \in 0..n}

\* ------------------------------------------------------------ markup
\* The boundary between two text nodes inside an element: any tag, such as
\* the <span> and </span> GitHub puts around the owner's name.
TagBoundary == "<tag>"

\* What str.strip() removes.
Whitespace == {" ", "\t", "\n"}

\* The value of an attribute the element does not have (a string of one
\* symbol that no markup holds).
NoAttr == <<"<no attribute>">>

\* The anchors and other links a trending page is made of.  row: the node
\* lies inside article.Box-row; h2h3: it lies inside h2.h3 (within that
\* article); href: the attribute, NoAttr when the anchor has none; text: the
\* anchor's content, its text nodes separated by TagBoundary.
RepoA ==
    [tag |-> "a", row |-> TRUE, h2h3 |-> TRUE, href |-> <<"/o/a">>,
     text |-> <<"\n", "o", " ", "/", TagBoundary, "\n", " ", "a", " ">>]

RepoB ==
    [tag |-> "a", row |-> TRUE, h2h3 |-> TRUE, href |-> <<"/o/b">>,
     text |-> <<"o", " ", "/", " ", "b">>]

NoHrefAnchor ==
    [tag |-> "a", row |-> TRUE, h2h3 |-> TRUE, href |-> NoAttr,
     text |-> <<"o", "/", "c">>]

\* A link of a repository row that is not its heading (the star button).
StarLink ==
    [tag |-> "a", row |-> TRUE, h2h3 |-> FALSE, href |-> <<"/o/a/stargazers">>,
     text |-> <<"1">>]

Nodes == {RepoA, RepoB, NoHrefAnchor, StarLink}

\* The pages fetch_html can return.
Documents == SeqsUpTo(Nodes, MaxDocLen)

\* ------------------------------------------------------------ parser
\* soup.select("article.Box-row h2.h3 a"): the anchors inside an h2.h3
\* inside an article.Box-row, each once, in document order.
Matches(node) == node.tag = "a" /\ node.row /\ node.h2h3

select(html) == SelectSeq(html, Matches)

RECURSIVE SplitNodes(_)
\* The text nodes of an element's content, in document order.
SplitNodes(text) ==
    IF \A i \in 1..Len(text) : text[i] # TagBoundary
    THEN <<text>>
    ELSE LET i == CHOOSE k \in 1..Len(text) :
                    /\ text[k] = TagBoundary
                    /\ \A j \in 1..(k - 1) : text[j] # TagBoundary
         IN  <<SubSeq(text, 1, i - 1)>> \o SplitNodes(Drop(text, i))

RECURSIVE lstrip(_)
lstrip(s) == IF s # <<>> /\ Head(s) \in Whitespace THEN lstrip(Tail(s)) ELSE s

RECURSIVE rstrip(_)
rstrip(s) ==
    IF s # <<>> /\ s[Len(s)] \in Whitespace
    THEN rstrip(SubSeq(s, 1, Len(s) - 1))
    ELSE s

\* str.strip()
strip(s) == rstrip(lstrip(s))

RECURSIVE all_strings(_)
\* Tag._all_strings(strip=True): each text node stripped, the empty ones
\* skipped.
all_strings(nodes) ==
    IF nodes = <<>> THEN <<>>
    ELSE LET t == strip(Head(nodes))
         IN  (IF t = <<>> THEN <<>> ELSE <<t>>) \o all_strings(Tail(nodes))

\* anchor.get_text(strip=True): the stripped text nodes joined by "".
get_text(text) == Concat(all_strings(SplitNodes(text)))

RECURSIVE replace(_, _, _)
\* s.replace(old, new) for a one-character old.
replace(s, old, new) ==
    IF s = <<>> THEN <<>>
    ELSE (IF Head(s) = old THEN new ELSE <<Head(s)>>)
             \o replace(Tail(s), old, new)

\* A variant of ExtractName: the spaces are not removed.
ExtractNameStripOnly(text) == get_text(text)

\* name = anchor.get_text(strip=True).replace(" ", "")
ExtractName(text) == replace(get_text(text), " ", <<>>)

\* link = f"https://github.com{anchor['href']}"
ExtractLink(href) == <<"https://github.com">> \o href

\* A variant of SelectedAnchors: the slice takes one anchor too many.
SelectedAnchorsOneMore(html, m) == Take(select(html), m + 1)

\* anchors = soup.select(...)[:self.max_repos]
SelectedAnchors(html, m) == Take(select(html), m)

Return(v) == [ok |-> TRUE, value |-> v]

Raise(e) == [ok |-> FALSE, error |-> e]

RECURSIVE ParseLoopSkip(_, _)
\* A variant of ParseLoop: an anchor without href is skipped.
ParseLoopSkip(anchors, repositories) ==
    IF anchors = <<>> THEN Return(repositories)
    ELSE LET anchor == Head(anchors)
         IN  IF anchor.href = NoAttr
             THEN ParseLoopSkip(Tail(anchors), repositories)
             ELSE ParseLoopSkip(Tail(anchors),
                                Append(repositories,
                                       <<ExtractName(anchor.text),
                                         ExtractLink(anchor.href)>>))

RECURSIVE ParseLoop(_, _)
\* The for loop of parse_repositories over the anchors left, repositories
\* being the list built so far; anchor['href'] raises KeyError when the
\* anchor has no href, and the list is lost with the frame.
ParseLoop(anchors, repositories) ==
    IF anchors = <<>> THEN Return(repositories)
    ELSE LET anchor == Head(anchors)
         IN  IF anchor.href = NoAttr THEN Raise("KeyError")
             ELSE ParseLoop(Tail(anchors),
                            Append(repositories,
                                   <<ExtractName(anchor.text),
                                     ExtractLink(anchor.href)>>))

\* A variant of parse_repositories: a page without a match is an error.
parse_repositories_nonempty(html, m) ==
    IF select(html) = <<>> THEN Raise("IndexError")
    ELSE ParseLoop(SelectedAnchors(html, m), <<>>)

parse_repositories(html, m) == ParseLoop(SelectedAnchors(html, m), <<>>)

\* ------------------------------------------------------------ csv writer
Comma == ","

DQuote == "\""

CR == "\r"

LF == "\n"

\* csv.writer(file): the excel dialect, QUOTE_MINIMAL, lineterminator "\r\n".
NeedsQuoting == {Comma, DQuote, CR, LF}

HeaderRow == << <<"Repository Name">>, <<"Repository Link">> >>

\* A variant of WriteField: the quote characters of a field are not doubled.
WriteFieldNoDoubling(f, only) ==
    LET quoted == (\E i \in 1..Len(f) : f[i] \in NeedsQuoting)
                      \/ (only /\ f = <<>>)
    IN  IF quoted THEN <<DQuote>> \o f \o <<DQuote>> ELSE f

\* One field as the writer emits it: quoted when it holds the delimiter, the
\* quote character or a character of the line terminator (or is the only,
\* empty, field of its row), with each quote character doubled.
WriteField(f, only) ==
    LET quoted == (\E i \in 1..Len(f) : f[i] \in NeedsQuoting)
                      \/ (only /\ f = <<>>)
        body == replace(f, DQuote, <<DQuote, DQuote>>)
    IN  IF quoted THEN <<DQuote>> \o body \o <<DQuote>> ELSE body

RECURSIVE JoinFields(_, _)
JoinFields(row, only) ==
    IF row = <<>> THEN <<>>
    ELSE WriteField(Head(row), only)
             \o (IF Len(row) > 1 THEN <<Comma>> ELSE <<>>)
             \o JoinFields(Tail(row), only)

\* writer.writerow(row): what is written to the file object.
writerow(row) == JoinFields(row, Len(row) = 1) \o <<CR, LF>>

RECURSIVE writerows(_)
\* writer.writerows(rows)
writerows(rows) ==
    IF rows = <<>> THEN <<>> ELSE writerow(Head(rows)) \o writerows(Tail(rows))

\* ------------------------------------------------------------ file system
\* The content of a file that does not exist (one symbol no file holds).
NoFile == <<"<no file>">>

NUL == "<NUL>"

\* The content of a file after data is written at offset pos (counted from
\* 0) through a descriptor: the bytes under it are replaced, the file grows
\* when the write ends past its end, and a write that starts past the end
\* leaves a hole that reads as NUL.
WriteAt(f, pos, data) ==
    LET gap == [i \in 1..Max(0, pos - Len(f)) |-> NUL]
    IN  Take(f, pos) \o gap \o data \o Drop(f, pos + Len(data))

\* A variant of OpenForWrite: mode "r+", the file keeps what it holds.
OpenNoTruncate(f) == IF f = NoFile THEN <<>> ELSE f

\* open(self.output_file, "w", ...): the file is created or cut to length 0.
OpenForWrite(f) == <<>>

\* The places of the pending data at which the buffered file object can pass
\* it to the operating system before close(): none of it, or everything up
\* to the end of one of the writer's write() calls (the header, each row).
FlushPoints(pending, rows) ==
    {0} \cup {Len(pending) + Len(writerows(Take(rows, j))) : j \in 0..Len(rows)}

\* ------------------------------------------------------------ state
Procs == {1, 2}

Other(p) == 3 - p

VARIABLES
    max_repos,   \* self.max_repos
    pc,          \* pc[p]: where invocation p is
    invoker,     \* "ui" (the button handler of app.py) or "run" (run())
    html,        \* the local html of the invocation
    repos,       \* repos[p]: the local repos of invocation p
    dirExists,   \* whether self.output_dir exists
    file,        \* the content of self.output_file, NoFile when absent
    buf,         \* buf[p]: what p's file object holds and has not written
    pos,         \* pos[p]: the offset of p's file descriptor
    shown,       \* what the page shows: the success box and the list
    printed,     \* what run() printed
    error,       \* the exception that ended the invocation, "none" if none
    nGet,        \* history: GET requests issued by this invocation
    nParse,      \* history: calls of parse_repositories by this invocation
    nExport,     \* history: calls of export_to_csv by this invocation
    parsed,      \* history: what parse_repositories returned
    fileBefore,  \* history: file when the invocation began
    dirBefore,   \* history: dirExists when the invocation began
    overlap,     \* history: an open() happened while the other file was open
    lastOpen,    \* history: the invocation that opened the file last
    linkText,    \* the anchor content given to the name extraction
    name,        \* the name extracted from linkText
    readBack     \* the rows a csv.reader read from file

vars ==
    <<max_repos, pc, invoker, html, repos, dirExists, file, buf, pos, shown,
      printed, error, nGet, nParse, nExport, parsed, fileBefore, dirBefore,
      overlap, lastOpen, linkText, name, readBack>>

\* A local that is not bound yet.
NoHtml == <<>>

\* A page that shows nothing, and a console with nothing printed.
NothingShown == [success |-> FALSE, entries |-> <<>>]

NothingPrinted == [top |-> 0, path |-> "<nothing>"]

\* What a function that has not returned has returned.
NotRun == << << <<"<not run>">> >> >>

NoName == <<"<no name>">>

pureVars == <<linkText, name, readBack>>

\* ------------------------------------------------------------ control flow
\* A variant of StageAfter: the result is presented before it is exported.
StageAfterPresentFirst(stage) ==
    CASE stage = "fetch" -> "parse"
      [] stage = "parse" -> "present"
      [] stage = "present" -> "export"
      [] stage = "exported" -> "done"

\* The order of the statements of run() and of the button handler: where an
\* invocation goes when the stage it is in returns.
StageAfter(stage) ==
    CASE stage = "fetch" -> "parse"
      [] stage = "parse" -> "export"
      [] stage = "exported" -> "present"
      [] stage = "present" -> "done"

\* A variant of StageOnError: a failed fetch is swallowed.
StageOnErrorFetchGoesOn(stage) == IF stage = "fetch" THEN "parse" ELSE "failed"

\* A variant of StageOnError: a failed parse is swallowed.
StageOnErrorParseGoesOn(stage) == IF stage = "parse" THEN "export" ELSE "failed"

\* An exception is caught by no stage and by neither invoker: it ends the
\* invocation.
StageOnError(stage) == "failed"

\* The button is pressed, or run() is called.
Invoke(inv) ==
    /\ pc[1] \in {"idle", "done", "failed"}
    /\ pc' = [pc EXCEPT ![1] = "fetch"]
    /\ invoker' = inv
    /\ html' = NoHtml
    /\ repos' = [repos EXCEPT ![1] = <<>>]
    /\ buf' = [buf EXCEPT ![1] = <<>>]
    /\ pos' = [pos EXCEPT ![1] = 0]
    /\ shown' = NothingShown
    /\ printed' = NothingPrinted
    /\ error' = "none"
    /\ nGet' = 0
    /\ nParse' = 0
    /\ nExport' = 0
    /\ parsed' = NotRun
    /\ fileBefore' = file
    /\ dirBefore' = dirExists
    /\ UNCHANGED <<max_repos, dirExists, file, overlap, lastOpen, pureVars>>

\* fetch_html returns response.text.
FetchOk(doc) ==
    /\ pc[1] = "fetch"
    /\ nGet' = nGet + 1
    /\ html' = doc
    /\ pc' = [pc EXCEPT ![1] = StageAfter("fetch")]
    /\ UNCHANGED <<max_repos, invoker, repos, dirExists, file, buf, pos, shown,
                   printed, error, nParse, nExport, parsed, fileBefore,
                   dirBefore, overlap, lastOpen, pureVars>>

\* requests.get or raise_for_status raises a RequestException (no
\* connection, timeout, a status that is not a success): SystemExit.
FetchFail ==
    /\ pc[1] = "fetch"
    /\ nGet' = nGet + 1
    /\ error' = "SystemExit"
    /\ pc' = [pc EXCEPT ![1] = StageOnError("fetch")]
    /\ UNCHANGED <<max_repos, invoker, html, repos, dirExists, file, buf, pos,
                   shown, printed, nParse, nExport, parsed, fileBefore,
                   dirBefore, overlap, lastOpen, pureVars>>

\* repos = scraper.parse_repositories(html)
Parse ==
    /\ pc[1] = "parse"
    /\ nParse' = nParse + 1
    /\ LET r == parse_repositories(html, max_repos)
       IN  IF r.ok
           THEN /\ repos' = [repos EXCEPT ![1] = r.value]
                /\ parsed' = r.value
                /\ pc' = [pc EXCEPT ![1] = StageAfter("parse")]
                /\ error' = error
           ELSE /\ error' = r.error
                /\ pc' = [pc EXCEPT ![1] = StageOnError("parse")]
                /\ UNCHANGED <<repos, parsed>>
    /\ UNCHANGED <<max_repos, invoker, html, dirExists, file, buf, pos, shown,
                   printed, nGet, nExport, fileBefore, dirBefore, overlap,
                   lastOpen, pureVars>>

\* ------------------------------------------------------------ exporter
exportVarsUnchanged ==
    UNCHANGED <<max_repos, invoker, repos, shown, printed, nGet, nParse,
                parsed, fileBefore, dirBefore, pureVars>>

\* export_to_csv is entered; os.makedirs(self.output_dir, exist_ok=True)
\* returns.  The caller's html is not read again.
Makedirs(p) ==
    /\ pc[p] = "export"
    /\ nExport' = IF p = 1 THEN nExport + 1 ELSE nExport
    /\ dirExists' = TRUE
    /\ html' = NoHtml
    /\ pc' = [pc EXCEPT ![p] = "open"]
    /\ UNCHANGED <<file, buf, pos, error, overlap, lastOpen>>
    /\ exportVarsUnchanged

\* os.makedirs raises OSError (permission denied, read-only file system).
MakedirsFail(p) ==
    /\ pc[p] = "export"
    /\ ~dirExists
    /\ nExport' = IF p = 1 THEN nExport + 1 ELSE nExport
    /\ html' = NoHtml
    /\ error' = "OSError"
    /\ pc' = [pc EXCEPT ![p] = StageOnError("export")]
    /\ UNCHANGED <<dirExists, file, buf, pos, overlap, lastOpen>>
    /\ exportVarsUnchanged

\* A variant of Open: mode "a", the file keeps what it holds and every write
\* goes to its end.
OpenAppend(p) ==
    /\ pc[p] = "open"
    /\ dirExists
    /\ file' = IF file = NoFile THEN <<>> ELSE file
    /\ buf' = [buf EXCEPT ![p] = <<>>]
    /\ pos' = [pos EXCEPT ![p] = IF file = NoFile THEN 0 ELSE Len(file)]
    /\ overlap' = (overlap \/ pc[Other(p)] \in {"header", "rows", "close"})
    /\ lastOpen' = p
    /\ pc' = [pc EXCEPT ![p] = "header"]
    /\ UNCHANGED <<dirExists, html, error, nExport>>
    /\ UNCHANGED <<max_repos, invoker, repos, shown, printed, nGet, nParse,
                   parsed, fileBefore, dirBefore, pureVars>>

\* open(self.output_file, "w", newline="", encoding="utf-8") returns.
Open(p) ==
    /\ pc[p] = "open"
    /\ dirExists
    /\ file' = OpenForWrite(file)
    /\ buf' = [buf EXCEPT ![p] = <<>>]
    /\ pos' = [pos EXCEPT ![p] = 0]
    /\ overlap' = (overlap \/ pc[Other(p)] \in {"header", "rows", "close"})
    /\ lastOpen' = p
    /\ pc' = [pc EXCEPT ![p] = "header"]
    /\ UNCHANGED <<dirExists, html, error, nExport>>
    /\ exportVarsUnchanged

\* open raises OSError (permission denied, no space for a new file).
OpenFail(p) ==
    /\ pc[p] = "open"
    /\ error' = "OSError"
    /\ pc' = [pc EXCEPT ![p] = StageOnError("export")]
    /\ UNCHANGED <<dirExists, file, buf, pos, html, nExport, overlap, lastOpen>>
    /\ exportVarsUnchanged

\* The file object takes data after what it holds and passes the first k
\* symbols of the whole to the operating system at the descriptor's offset.
Buffered(p, data, k) ==
    LET pending == buf[p] \o data
    IN  /\ file' = IF k = 0 THEN file ELSE WriteAt(file, pos[p], Take(pending, k))
        /\ pos' = [pos EXCEPT ![p] = pos[p] + k]
        /\ buf' = [buf EXCEPT ![p] = Drop(pending, k)]

\* writer.writerow(["Repository Name", "Repository Link"])
WriteHeader(p) ==
    /\ pc[p] = "header"
    /\ \E k \in FlushPoints(buf[p], <<HeaderRow>>) :
           Buffered(p, writerow(HeaderRow), k)
    /\ pc' = [pc EXCEPT ![p] = "rows"]
    /\ UNCHANGED <<dirExists, html, error, nExport, overlap, lastOpen>>
    /\ exportVarsUnchanged

\* writer.writerows(repos)
WriteRows(p) ==
    /\ pc[p] = "rows"
    /\ \E k \in FlushPoints(buf[p], repos[p]) :
           Buffered(p, writerows(repos[p]), k)
    /\ pc' = [pc EXCEPT ![p] = "close"]
    /\ UNCHANGED <<dirExists, html, error, nExport, overlap, lastOpen>>
    /\ exportVarsUnchanged

\* The with block ends: the file object writes what it holds and is closed,
\* and export_to_csv returns.
Close(p) ==
    /\ pc[p] = "close"
    /\ Buffered(p, <<>>, Len(buf[p]))
    /\ pc' = [pc EXCEPT ![p] = StageAfter("exported")]
    /\ UNCHANGED <<dirExists, html, error, nExport, overlap, lastOpen>>
    /\ exportVarsUnchanged

\* The write at the end of the with block raises OSError (no space left,
\* I/O error) after the operating system took only the first k symbols.
CloseFail(p) ==
    /\ pc[p] = "close"
    /\ \E k \in 0..(Len(buf[p]) - 1) : Buffered(p, <<>>, k)
    /\ error' = "OSError"
    /\ pc' = [pc EXCEPT ![p] = StageOnError("export")]
    /\ UNCHANGED <<dirExists, html, nExport, overlap, lastOpen>>
    /\ exportVarsUnchanged

\* ------------------------------------------------------------ presenter
\* st.success(...) and one st.markdown line per entry of repos.
Render(list) == [success |-> TRUE, entries |-> list]

\* print(f"Scraped top {self.max_repos} repositories to: {self.output_file}")
Message(m) == [top |-> m, path |-> "trending_repos.csv"]

\* The statements after export_to_csv: of the button handler, of run().
Present ==
    /\ pc[1] = "present"
    /\ IF invoker = "ui"
       THEN shown' = Render(repos[1]) /\ printed' = printed
       ELSE printed' = Message(max_repos) /\ shown' = shown
    /\ pc' = [pc EXCEPT ![1] = StageAfter("present")]
    /\ UNCHANGED <<max_repos, invoker, html, repos, dirExists, file, buf, pos,
                   error, nGet, nParse, nExport, parsed, fileBefore, dirBefore,
                   overlap, lastOpen, pureVars>>

\* ------------------------------------------------------------ one scraper
\* The state after GitHubTrendingScraper(max_repos=m) is constructed: the
\* constructor touches no file.  run() is a method of any such scraper; the
\* button handler constructs its own with the default max_repos, which the
\* model treats as one more value of m.
Init ==
    /\ max_repos \in 1..MaxRepos
    /\ pc = [p \in Procs |-> IF p = 1 THEN "idle" ELSE "off"]
    /\ invoker = "ui"
    /\ html = NoHtml
    /\ repos = [p \in Procs |-> <<>>]
    /\ dirExists \in BOOLEAN
    /\ file = NoFile
    /\ buf = [p \in Procs |-> <<>>]
    /\ pos = [p \in Procs |-> 0]
    /\ shown = NothingShown
    /\ printed = NothingPrinted
    /\ error = "none"
    /\ nGet = 0
    /\ nParse = 0
    /\ nExport = 0
    /\ parsed = NotRun
    /\ fileBefore = NoFile
    /\ dirBefore = dirExists
    /\ overlap = FALSE
    /\ lastOpen = 0
    /\ linkText = <<>>
    /\ name = NoName
    /\ readBack = NotRun

Next ==
    \/ \E inv \in {"ui", "run"} : Invoke(inv)
    \/ \E doc \in Documents : FetchOk(doc)
    \/ FetchFail
    \/ Parse
    \/ Makedirs(1)
    \/ MakedirsFail(1)
    \/ Open(1)
    \/ OpenFail(1)
    \/ WriteHeader(1)
    \/ WriteRows(1)
    \/ Close(1)
    \/ CloseFail(1)
    \/ Present

Spec == Init /\ [][Next]_vars

\* ------------------------------------------------------------ two exports
\* What parse_repositories can return to a scraper constructed with m.
ParseResults(m) ==
    {parse_repositories(d, m).value :
        d \in {e \in Documents : parse_repositories(e, m).ok}}

\* Two invocations on the same output file, each with the list its parser
\* returned, about to call export_to_csv.
InitConc ==
    /\ max_repos \in 1..MaxRepos
    /\ pc = [p \in Procs |-> "export"]
    /\ invoker = "run"
    /\ html = NoHtml
    /\ repos \in [Procs -> ParseResults(max_repos)]
    /\ dirExists \in BOOLEAN
    /\ file = NoFile
    /\ buf = [p \in Procs |-> <<>>]
    /\ pos = [p \in Procs |-> 0]
    /\ shown = NothingShown
    /\ printed = NothingPrinted
    /\ error = "none"
    /\ nGet = 1
    /\ nParse = 1
    /\ nExport = 0
    /\ parsed = repos[1]
    /\ fileBefore = NoFile
    /\ dirBefore = dirExists
    /\ overlap = FALSE
    /\ lastOpen = 0
    /\ linkText = <<>>
    /\ name = NoName
    /\ readBack = NotRun

NextConc ==
    \E p \in Procs :
        \/ Makedirs(p)
        \/ Open(p)
        \/ WriteHeader(p)
        \/ WriteRows(p)
        \/ Close(p)

SpecConc == InitConc /\ [][NextConc]_vars

\* ------------------------------------------------------------ name extraction
TextAlphabet == {"o", "/", " ", "\t", "\n", TagBoundary}

\* The contents an anchor can have.
AnchorTexts == SeqsUpTo(TextAlphabet, MaxTextLen)

InitName ==
    /\ max_repos = 1
    /\ pc = [p \in Procs |-> "off"]
    /\ invoker = "run"
    /\ html = NoHtml
    /\ repos = [p \in Procs |-> <<>>]
    /\ dirExists = FALSE
    /\ file = NoFile
    /\ buf = [p \in Procs |-> <<>>]
    /\ pos = [p \in Procs |-> 0]
    /\ shown = NothingShown
    /\ printed = NothingPrinted
    /\ error = "none"
    /\ nGet = 0
    /\ nParse = 0
    /\ nExport = 0
    /\ parsed = NotRun
    /\ fileBefore = NoFile
    /\ dirBefore = FALSE
    /\ overlap = FALSE
    /\ lastOpen = 0
    /\ linkText \in AnchorTexts
    /\ name = NoName
    /\ readBack = NotRun

\* The first statement of the loop body of parse_repositories, on an anchor
\* whose content is linkText.
NameStep ==
    /\ name = NoName
    /\ name' = ExtractName(linkText)
    /\ UNCHANGED <<max_repos, pc, invoker, html, repos, dirExists, file, buf,
                   pos, shown, printed, error, nGet, nParse, nExport, parsed,
                   fileBefore, dirBefore, overlap, lastOpen, linkText,
                   readBack>>

NextName == NameStep

SpecName == InitName /\ [][NextName]_vars

\* ------------------------------------------------------------ csv reader
\* The standard reader the file is read back with: csv.reader of the Python
\* library, excel dialect, on the file opened with newline="".  ReadFrom is
\* its state machine from symbol i of text on: st is the parser's state, cur
\* the field being read, fields the fields of the record being read, rows
\* the records read.
RECURSIVE ReadFrom(_, _, _, _, _, _)
ReadFrom(text, i, st, cur, fields, rows) ==
    IF i > Len(text)
    THEN IF st = "START_RECORD" THEN rows
         ELSE Append(rows, Append(fields, cur))
    ELSE LET c == text[i]
             eol == c \in {CR, LF}
             \* A line ends with CR LF, CR or LF.
             after == IF c = CR /\ i < Len(text) /\ text[i + 1] = LF
                      THEN i + 2 ELSE i + 1
             s1 == IF st = "START_RECORD" /\ ~eol THEN "START_FIELD" ELSE st
         IN  CASE s1 = "START_RECORD" ->
                      ReadFrom(text, after, "START_RECORD", <<>>, <<>>,
                               Append(rows, <<>>))
               [] s1 \in {"START_FIELD", "IN_FIELD", "QUOTE_IN_QUOTED"} /\ eol ->
                      ReadFrom(text, after, "START_RECORD", <<>>, <<>>,
                               Append(rows, Append(fields, cur)))
               [] s1 \in {"START_FIELD", "IN_FIELD", "QUOTE_IN_QUOTED"}
                      /\ c = Comma ->
                      ReadFrom(text, i + 1, "START_FIELD", <<>>,
                               Append(fields, cur), rows)
               [] s1 = "START_FIELD" /\ c = DQuote ->
                      ReadFrom(text, i + 1, "IN_QUOTED", cur, fields, rows)
               [] s1 = "QUOTE_IN_QUOTED" /\ c = DQuote ->
                      ReadFrom(text, i + 1, "IN_QUOTED", Append(cur, c),
                               fields, rows)
               [] s1 = "IN_QUOTED" /\ c = DQuote ->
                      ReadFrom(text, i + 1, "QUOTE_IN_QUOTED", cur, fields,
                               rows)
               [] s1 = "IN_QUOTED" /\ c # DQuote ->
                      ReadFrom(text, i + 1, "IN_QUOTED", Append(cur, c),
                               fields, rows)
               [] OTHER ->
                      ReadFrom(text, i + 1, "IN_FIELD", Append(cur, c),
                               fields, rows)

\* list(csv.reader(f)) for a file f holding text.
csv_reader(text) == ReadFrom(text, 1, "START_RECORD", <<>>, <<>>, <<>>)

\* ------------------------------------------------------------ csv round trip
CsvAlphabet == {"a", Comma, DQuote, CR, LF}

FieldBoundary == "<field>"

\* The (name, link) pairs whose two fields hold fewer than n symbols in all.
Pairs(n) ==
    {<<SubSeq(s, 1, k - 1), Drop(s, k)>> :
        <<s, k>> \in {<<t, j>> \in SeqsUpTo(CsvAlphabet \cup {FieldBoundary}, n)
                                       \X (1..n) :
                         /\ j <= Len(t)
                         /\ t[j] = FieldBoundary
                         /\ \A i \in 1..Len(t) : t[i] = FieldBoundary => i = j}}

PlainEntry == << <<"a">>, <<"a", "a">> >>

QuotedEntry == << <<DQuote, "a">>, <<"a", Comma, LF>> >>

\* The lists export_to_csv is given: one pair alone, before a plain entry,
\* after an entry that needs quoting, and twice.
EntryLists ==
    {<<>>} \cup UNION {{<<e>>, <<e, PlainEntry>>, <<QuotedEntry, e>>, <<e, e>>} :
                          e \in Pairs(MaxPairLen)}

InitCsv ==
    /\ max_repos = 1
    /\ pc = [p \in Procs |-> IF p = 1 THEN "export" ELSE "off"]
    /\ invoker = "run"
    /\ html = NoHtml
    /\ repos \in [Procs -> EntryLists]
    /\ repos[2] = <<>>
    /\ dirExists = FALSE
    /\ file = NoFile
    /\ buf = [p \in Procs |-> <<>>]
    /\ pos = [p \in Procs |-> 0]
    /\ shown = NothingShown
    /\ printed = NothingPrinted
    /\ error = "none"
    /\ nGet = 0
    /\ nParse = 0
    /\ nExport = 0
    /\ parsed = NotRun
    /\ fileBefore = NoFile
    /\ dirBefore = FALSE
    /\ overlap = FALSE
    /\ lastOpen = 0
    /\ linkText = <<>>
    /\ name = NoName
    /\ readBack = NotRun

\* The file export_to_csv left is read with a csv.reader.
ReadBack ==
    /\ pc[1] = StageAfter("exported")
    /\ readBack = NotRun
    /\ readBack' = csv_reader(file)
    /\ UNCHANGED <<max_repos, pc, invoker, html, repos, dirExists, file, buf,
                   pos, shown, printed, error, nGet, nParse, nExport, parsed,
                   fileBefore, dirBefore, overlap, lastOpen, linkText, name>>

NextCsv ==
    \/ Makedirs(1)
    \/ Open(1)
    \/ WriteHeader(1)
    \/ WriteRows(1)
    \/ Close(1)
    \/ ReadBack

SpecCsv == InitCsv /\ [][NextCsv]_vars

\* ============================================================ claims
\* The text of the complete table of a list of entries.
TableText(list) == writerow(HeaderRow) \o writerows(list)

\* The rows a reader finds in a complete table of a list of entries.
TableRows(list) == <<HeaderRow>> \o list

\* parse_repositories has been called on html and nothing ran after it.
JustParsed == nParse = 1 /\ nExport = 0 /\ pc[1] \in {"export", "failed"}

\* export_to_csv has returned to invocation p.
Exported(p) == pc[p] \in {"present", "done"}

\* The anchors of html that carry the entries: the first min(K, max_repos)
\* matches.
FirstMatches == SubSeq(select(html), 1, Min(Len(select(html)), max_repos))

WellFormed(anchor) == anchor.href # NoAttr

\* ----- C1
\* C1 as stated: whatever the markup, once parse_repositories has been
\* called on a page with K matching anchors it has returned min(K, max_repos)
\* entries, the i-th derived from the i-th matching anchor.
C1_AnyMarkup ==
    JustParsed =>
        /\ pc[1] = "export"
        /\ Len(parsed) = Min(Len(select(html)), max_repos)
        /\ \A i \in 1..Len(parsed) :
               parsed[i] = <<ExtractName(select(html)[i].text),
                             ExtractLink(select(html)[i].href)>>

\* C1, amended: when each of the first min(K, max_repos) matching anchors
\* has an href, parse_repositories returns exactly min(K, max_repos) entries,
\* the i-th derived from the i-th matching anchor in document order.
C1_MinKMInOrder ==
    (JustParsed /\ \A i \in 1..Len(FirstMatches) : WellFormed(FirstMatches[i]))
        =>
        /\ pc[1] = "export"
        /\ repos[1] = parsed
        /\ Len(parsed) = Min(Len(select(html)), max_repos)
        /\ \A i \in 1..Len(parsed) :
               parsed[i] = <<ExtractName(select(html)[i].text),
                             ExtractLink(select(html)[i].href)>>

\* More matches than max_repos, and two different entries returned.
C1_Witness ==
    /\ JustParsed
    /\ pc[1] = "export"
    /\ Len(select(html)) > max_repos
    /\ Len(parsed) = 2
    /\ parsed[1] # parsed[2]

\* ----- C2
\* C2: when fetch_html fails the invocation is over, parse_repositories and
\* export_to_csv were not called, and the output directory and the output
\* file are as they were when the invocation began.
C2_FetchFailureAborts ==
    error = "SystemExit" =>
        /\ pc[1] = "failed"
        /\ nGet = 1
        /\ nParse = 0
        /\ nExport = 0
        /\ file = fileBefore
        /\ dirExists = dirBefore
        /\ shown = NothingShown
        /\ printed = NothingPrinted

\* A fetch of the button handler fails when an earlier run left a file.
C2_Witness ==
    /\ error = "SystemExit"
    /\ invoker = "ui"
    /\ file # NoFile
    /\ Len(file) > Len(writerow(HeaderRow))

\* ----- C3
\* C3: when one of the first min(K, max_repos) matching anchors has no href,
\* parse_repositories fails: nothing is returned, export_to_csv is not
\* called and the file is unchanged; when all of them have one it returns,
\* whatever the anchors after them are.
C3_MalformedAnchorFailsRun ==
    JustParsed =>
        IF \E i \in 1..Len(FirstMatches) : ~WellFormed(FirstMatches[i])
        THEN /\ pc[1] = "failed"
             /\ error = "KeyError"
             /\ parsed = NotRun
             /\ repos[1] = <<>>
             /\ file = fileBefore
             /\ dirExists = dirBefore
        ELSE /\ pc[1] = "export"
             /\ error = "none"
             /\ Len(parsed) = Len(FirstMatches)

\* The parser fails on an anchor without href that follows a well-formed
\* one, with a file of an earlier run on disk.
C3_Witness ==
    /\ JustParsed
    /\ error = "KeyError"
    /\ Len(FirstMatches) = 2
    /\ WellFormed(FirstMatches[1])
    /\ ~WellFormed(FirstMatches[2])
    /\ file # NoFile

\* ----- C4
\* C4: whenever export_to_csv has returned, the file holds the header row
\* followed by the rows of that call in its order and nothing else, whatever
\* earlier calls wrote.
C4_OnlyLastExport ==
    Exported(1) =>
        /\ csv_reader(file) = TableRows(repos[1])
        /\ SubSeq(file, 1, 5) =
               <<"Repository Name", ",", "Repository Link", "\r", "\n">>

\* An export of one entry returned over a file that held two entries.
C4_Witness ==
    /\ Exported(1)
    /\ fileBefore # NoFile
    /\ Len(csv_reader(fileBefore)) = 3
    /\ fileBefore = TableText(Tail(csv_reader(fileBefore)))
    /\ Len(repos[1]) = 1
    /\ repos[1][1] # csv_reader(fileBefore)[2]

\* ----- C5
\* C5 as stated: after an invocation that failed in any stage, the file
\* holds what it held before the invocation or a complete table.
C5_NeverPartial ==
    pc[1] = "failed" =>
        \/ file = fileBefore
        \/ file = TableText(repos[1])

\* C5, amended: as long as the invocation has failed in fetch_html or in
\* parse_repositories the file holds what it held before the invocation; an
\* invocation that failed in export_to_csv leaves that content or a prefix,
\* possibly empty, of the text of the table.
C5_PartialOnlyFromExport ==
    /\ error \in {"SystemExit", "KeyError"} => file = fileBefore
    /\ (pc[1] = "failed" /\ error = "OSError") =>
           \/ file = fileBefore
           \/ IsPrefix(file, TableText(repos[1]))

\* export_to_csv failed and left the header and part of the first row where
\* a complete table was.
C5_Witness ==
    /\ pc[1] = "failed"
    /\ error = "OSError"
    /\ fileBefore # NoFile
    /\ file # fileBefore
    /\ Len(file) > Len(writerow(HeaderRow))
    /\ Len(file) < Len(TableText(repos[1]))

\* ----- C6
\* C6: on a page without a matching anchor parse_repositories returns the
\* empty list and raises nothing, and once export_to_csv has returned the
\* file holds the header row and no other row.
C6_NoMatchHeaderOnly ==
    /\ (JustParsed /\ select(html) = <<>>) =>
           /\ pc[1] = "export"
           /\ error = "none"
           /\ parsed = <<>>
    /\ (Exported(1) /\ parsed = <<>>) =>
           /\ file = <<"Repository Name", ",", "Repository Link", "\r", "\n">>
           /\ csv_reader(file) = <<HeaderRow>>

\* A page of links that do not match was exported over a file with rows.
C6_Witness ==
    /\ Exported(1)
    /\ parsed = <<>>
    /\ fileBefore # NoFile
    /\ Len(csv_reader(fileBefore)) > 1
    /\ csv_reader(file) = <<HeaderRow>>

RECURSIVE Without(_, _)
\* s with the symbols of the set S deleted.
Without(s, S) ==
    IF s = <<>> THEN <<>>
    ELSE (IF Head(s) \in S THEN <<>> ELSE <<Head(s)>>) \o Without(Tail(s), S)

\* The text content of an anchor: its text nodes, one after the other.
TextContent(text) == Without(text, {TagBoundary})

RECURSIVE SpacelessStripped(_)
\* The text nodes, each without its leading and trailing whitespace and
\* without its spaces, one after the other.
SpacelessStripped(nodes) ==
    IF nodes = <<>> THEN <<>>
    ELSE Without(strip(Head(nodes)), {" "}) \o SpacelessStripped(Tail(nodes))

\* C7 as stated: the extracted name holds no whitespace character at all
\* and is the anchor's text content with the whitespace deleted.
C7_NoWhitespaceAtAll ==
    name # NoName =>
        /\ \A i \in 1..Len(name) : name[i] \notin Whitespace
        /\ name = Without(TextContent(linkText), Whitespace)

\* C7, amended: the extracted name holds no space character; it is the
\* anchor's text nodes, each without its leading and trailing whitespace
\* and without its spaces, one after the other, so that a tab or a line
\* break inside a text node stays; every character that is not whitespace is
\* kept, in its order.
C7_SpacesAndEdgesRemoved ==
    name # NoName =>
        /\ \A i \in 1..Len(name) : name[i] # " "
        /\ name = SpacelessStripped(SplitNodes(linkText))
        /\ Without(name, Whitespace) = Without(TextContent(linkText), Whitespace)
        /\ name # <<>> =>
               (name[1] \notin Whitespace /\ name[Len(name)] \notin Whitespace)

\* A name that keeps the line break of a text node with spaces and
\* whitespace around it.
C7_Witness ==
    /\ name # NoName
    /\ \E i \in 1..Len(name) : name[i] = "\n"
    /\ \E i \in 1..Len(linkText) : linkText[i] = " "
    /\ linkText[1] \in Whitespace

\* ----- C8
\* C8: a csv.reader reads from the file export_to_csv wrote the header row
\* and then the entries it was given, field for field, in their order, also
\* when fields hold commas, double quotes or line breaks.
C8_RoundTrip ==
    readBack # NotRun =>
        /\ readBack = TableRows(repos[1])
        /\ Len(readBack) = 1 + Len(repos[1])

\* Two entries read back, with a double quote, a comma and a line break in
\* fields of the first.
C8_Witness ==
    /\ readBack # NotRun
    /\ Len(repos[1]) = 2
    /\ \E i \in 1..Len(repos[1][1][1]) : repos[1][1][1][i] = DQuote
    /\ \E i \in 1..Len(repos[1][1][2]) : repos[1][1][2][i] = Comma
    /\ \E i \in 1..Len(repos[1][1][2]) : repos[1][1][2][i] \in {CR, LF}

\* ----- C9
BothExported == Exported(1) /\ Exported(2)

\* C9 as stated: when two concurrent invocations have both returned from
\* export_to_csv, the file is the complete table of one of them.
C9_OneCompleteTable ==
    BothExported =>
        \/ file = TableText(repos[1])
        \/ file = TableText(repos[2])

\* C9, amended: when the two calls of export_to_csv did not overlap (one
\* had closed the file before the other opened it), the file is the complete
\* table of the one that opened it last; when they overlapped the file
\* begins with the header row, and what follows may mix both runs.
C9_LastWriterWinsIfSerial ==
    BothExported =>
        /\ ~overlap => file = TableText(repos[lastOpen])
        /\ IsPrefix(writerow(HeaderRow), file)

\* Two exports one after the other, the second with fewer entries.
C9_Witness ==
    /\ BothExported
    /\ ~overlap
    /\ Len(repos[lastOpen]) < Len(repos[Other(lastOpen)])
    /\ file = TableText(repos[lastOpen])

====
